---- MODULE Spec2Model ----
(***************************************************************************)
(* A model of the RAG backend: the chunker (chunking_service.py), the      *)
(* embedder's retry loop (embedding_service.py), the vector index schema   *)
(* and upsert (search_service.py), the retriever (rag_service.py) and the  *)
(* ingestion entry point (routes/upload.py).                               *)
(*                                                                         *)
(* Text is a sequence of one-character strings.  Indices that the code     *)
(* keeps 0-based (start_idx, end_idx, chunk_index) are 0-based here too.   *)
(***************************************************************************)
EXTENDS Integers, Sequences, FiniteSets, TLC

None == "None"

\* ------------------------------------------------------------------------
\* Bounds of the model
\* ------------------------------------------------------------------------
MaxTokens == 4
MaxChars == 6
MaxChunkArg == 2
MaxChunks == 5
MaxTexts == 2
MaxInstances == 3
MaxTopK == 2
MaxResults == 2
MaxDocTokens == 3
MaxPages == 2
MaxBlocks == 3

\* ------------------------------------------------------------------------
\* Python helpers
\* ------------------------------------------------------------------------
Min2(a, b) == IF a <= b THEN a ELSE b
Max2(a, b) == IF a >= b THEN a ELSE b
SetMax(S) == CHOOSE x \in S : \A y \in S : y <= x
SetMin(S) == CHOOSE x \in S : \A y \in S : x <= y

\* An optional integer argument: <<>> is None, <<v>> is the value v.
Optional(S) == {<<>>} \cup {<<v>> : v \in S}

\* x or y, for an optional integer x: None and 0 are both falsy.
PyOr(x, y) == IF x = <<>> THEN y ELSE IF x[1] = 0 THEN y ELSE x[1]

IsSpace(c) == c \in {" ", "\n"}

\* not text or not text.strip()
IsBlank(s) == \A i \in 1..Len(s) : IsSpace(s[i])

\* str.strip()
Strip(s) ==
    LET keep == {i \in 1..Len(s) : ~IsSpace(s[i])}
    IN IF keep = {} THEN <<>> ELSE SubSeq(s, SetMin(keep), SetMax(keep))

\* seq[a:b] with Python's treatment of negative and out-of-range indices.
PyIndex(i, n) == IF i < 0 THEN Max2(i + n, 0) ELSE Min2(i, n)
PySlice(s, a, b) == SubSeq(s, PyIndex(a, Len(s)) + 1, PyIndex(b, Len(s)))

\* str.rfind(ch, start, end) for 0 <= start: the highest 0-based index in
\* [start, end) holding ch, or -1.
rfind(s, ch, start, end) ==
    LET hits == {i \in start..(Min2(end, Len(s)) - 1) : s[i + 1] = ch}
    IN IF hits = {} THEN -1 ELSE SetMax(hits)

RECURSIVE SeqsUpTo(_, _)
SeqsUpTo(S, n) ==
    IF n = 0 THEN {<<>>}
    ELSE LET shorter == SeqsUpTo(S, n - 1)
         IN shorter \cup {Append(s, x) : s \in {t \in shorter : Len(t) = n - 1}, x \in S}

\* ------------------------------------------------------------------------
\* Configuration (core/config.py)
\* ------------------------------------------------------------------------
DefaultChunkSize == 1000
DefaultChunkOverlap == 200

\* The settings object: the defaults, or values set through the environment.
SettingsSet ==
    { [chunk_size |-> DefaultChunkSize, chunk_overlap |-> DefaultChunkOverlap] }
    \cup { [chunk_size |-> s, chunk_overlap |-> 0] : s \in 1..MaxChunkArg }

\* ------------------------------------------------------------------------
\* The tokenizer (tiktoken, an external library).  A token is a piece of
\* text; decode concatenates the pieces, and encode is its inverse on the
\* token sequences encode can return.
\* ------------------------------------------------------------------------
Vocab == { <<"x">>, <<" ", "x">>, <<" ">>, <<"7">> }

\* encode never returns a lone space in front of a letter: it returns " x".
Canonical(toks) ==
    \A i \in 1..(Len(toks) - 1) : ~(toks[i] = <<" ">> /\ toks[i + 1] = <<"x">>)

RECURSIVE decode(_)
decode(toks) ==
    IF Len(toks) = 0 THEN <<>>
    ELSE IF Len(toks) = 1 THEN toks[1]
    ELSE LET h == Len(toks) \div 2
         IN decode(SubSeq(toks, 1, h)) \o decode(SubSeq(toks, h + 1, Len(toks)))

\* The 3000-token document of the end-to-end scenario.
BigDoc == [i \in 1..3000 |-> <<"x">>]

TokenInputs == {t \in SeqsUpTo(Vocab, MaxTokens) : Canonical(t)}
CharInputs == SeqsUpTo({"x", " ", "\n"}, MaxChars)

\* Caller-supplied metadata mappings (Dict[str, Any]); <<>> is the empty one.
MetadataSet ==
    { <<>>,
      [file_id |-> "file-1"],
      [file_id |-> "file-1", chunk_index |-> 7] }

VARIABLES
    \* ChunkingService
    init_args, chunk_size, chunk_overlap, encoding,
    c_pc, text, tokens, metadata, start_idx, chunks, windows

VARIABLES
    \* EmbeddingService.generate_embeddings
    e_pc, texts, valid_texts, attempt, last_exception, embeddings, e_error,
    call_log, sleeps

VARIABLES
    \* The search index and the SearchService instances being constructed
    index, index_at_start, index_creates, create_faults, svc

chunkVars == <<init_args, chunk_size, chunk_overlap, encoding,
               c_pc, text, tokens, metadata, start_idx, chunks, windows>>
embedVars == <<e_pc, texts, valid_texts, attempt, last_exception, embeddings,
               e_error, call_log, sleeps>>

VARIABLES
    \* RAGService.query
    q_pc, question, top_k_arg, top_k, search_results, context, q_result, q_error, q_log

VARIABLES
    \* POST /upload
    u_pc, file, temp_file, blobs, u_text, index_docs, upsert_failed, stage_log,
    raised_at, responses, cleanup

indexVars == <<index, index_at_start, index_creates, create_faults, svc>>

queryVars == <<q_pc, question, top_k_arg, top_k, search_results, context, q_result,
               q_error, q_log>>

uploadVars == <<u_pc, file, temp_file, blobs, u_text, index_docs, upsert_failed, stage_log,
                raised_at, responses, cleanup>>

VARIABLES
    \* DocumentParser.parse_pdf and parse_docx
    p_pc, parser, p_doc, text_parts, full_text, normalized_text

parseVars == <<p_pc, parser, p_doc, text_parts, full_text, normalized_text>>

VARIABLES
    \* settings.debug
    debug

vars == <<chunkVars, embedVars, indexVars, queryVars, uploadVars, parseVars, debug>>

\* ------------------------------------------------------------------------
\* EmbeddingService (services/embedding_service.py)
\* ------------------------------------------------------------------------
max_retries == 3
retry_delay == 1

\* What the remote call can raise: the exception's type name and the
\* substrings its message holds, of those the code looks for.
ExceptionSet ==
    { [type |-> "APIConnectionError", msg |-> {"Connection"}],
      [type |-> "AuthenticationError", msg |-> {"401", "Unauthorized"}],
      [type |-> "NotFoundError", msg |-> {"404", "Not Found"}],
      [type |-> "RateLimitError", msg |-> {"429"}],
      [type |-> "InternalServerError", msg |-> {"Connection", "401"}],
      [type |-> "ConnectionError", msg |-> {"refused"}],
      [type |-> "PermissionDeniedError", msg |-> {"Unauthorized", "404"}],
      [type |-> "BadRequestError", msg |-> {"not found"}] }

NoException == [type |-> None, msg |-> {}]
NoError == [class |-> None, hint |-> None, type |-> None, msg |-> {}]

\* The vector lengths a deployment can return: text-embedding-ada-002's
\* 1536, or those of a deployment of another model.
Dimensions == {1536, 3072}

\* The vector the remote model returns for a text.
Embedding(t, dim) == [of |-> t, dim |-> dim]

\* [item.embedding for item in response.data]
ResponseEmbeddings(inputs, dim) == [i \in 1..Len(inputs) |-> Embedding(inputs[i], dim)]

\* The state of a service no call has been made on.
EmbeddingServiceInit ==
    /\ e_pc = "idle"
    /\ texts = <<>>
    /\ valid_texts = <<>>
    /\ attempt = 0
    /\ last_exception = NoException
    /\ embeddings = <<>>
    /\ e_error = NoError
    /\ call_log = <<>>
    /\ sleeps = <<>>

ValidTextsUnfiltered(ts) == ts

\* [text for text in texts if text and text.strip()]
ValidTexts(ts) == SelectSeq(ts, LAMBDA t : ~IsBlank(t))

\* generate_embeddings(texts) up to its first remote call.
GenerateEmbeddingsBody(ts) ==
    /\ texts' = ts
    /\ valid_texts' = ValidTexts(ts)
    /\ attempt' = 0
    /\ last_exception' = NoException
    /\ embeddings' = <<>>
    /\ e_error' = NoError
    /\ call_log' = <<>>
    /\ sleeps' = <<>>
    /\ e_pc' = IF ts = <<>> \/ ValidTexts(ts) = <<>> THEN "returned" ELSE "call"

\* generate_embedding(text) up to its first remote call: a blank text
\* returns [] at once, any other is sent as the one-element list [text].
GenerateEmbeddingBody(t) ==
    IF IsBlank(t)
    THEN /\ e_pc' = "returned"
         /\ UNCHANGED <<texts, valid_texts, attempt, last_exception, embeddings,
                        e_error, call_log, sleeps>>
    ELSE GenerateEmbeddingsBody(<<t>>)

\* The empty list generate_embedding returns for a blank text.
EmptyVector == [of |-> <<>>, dim |-> 0]

\* What generate_embedding(t) returns once generate_embeddings has returned.
GenerateEmbeddingResult(t) == IF IsBlank(t) THEN EmptyVector ELSE embeddings[1]

TextInputs == SeqsUpTo({<<>>, <<" ">>, <<"x">>}, MaxTexts)

\* A direct call of generate_embeddings.
GenerateEmbeddings ==
    /\ e_pc = "idle"
    /\ \E ts \in TextInputs : GenerateEmbeddingsBody(ts)

\* self.client.embeddings.create(...) returns: the loop returns its result.
EmbeddingsCreateReturns ==
    /\ e_pc = "call"
    /\ \E dim \in Dimensions :
        embeddings' = ResponseEmbeddings(valid_texts, dim)
    /\ call_log' = Append(call_log, "ok")
    /\ e_pc' = "returned"
    /\ UNCHANGED <<texts, valid_texts, attempt, last_exception, e_error, sleeps>>

RetryAfterAlways(k) == k < max_retries

\* if attempt < self.max_retries - 1
RetryAfter(k) == k < max_retries - 1

WaitTimeLinear(k) == retry_delay * 2 * k

\* wait_time = self.retry_delay * (2 ** attempt)
WaitTime(k) == retry_delay * (2 ^ k)

DetailedErrorAuthenticationFirst(exc) ==
    IF "401" \in exc.msg \/ "Unauthorized" \in exc.msg
    THEN [class |-> "authentication", hint |-> "Check: API key",
          type |-> None, msg |-> {}]
    ELSE IF "Connection" \in exc.msg \/ exc.type \in {"APIConnectionError", "ConnectionError"}
    THEN [class |-> "connection", hint |-> "Check: endpoint, network, deployment",
          type |-> None, msg |-> {}]
    ELSE IF "404" \in exc.msg \/ {"not found", "Not Found", "NOT FOUND"} \cap exc.msg # {}
    THEN [class |-> "deployment_not_found", hint |-> "Check: deployment name",
          type |-> None, msg |-> {}]
    ELSE [class |-> "unclassified", hint |-> None,
          type |-> exc.type, msg |-> exc.msg]

\* The classification of the last failure, and the message built from it.
DetailedError(exc) ==
    IF "Connection" \in exc.msg \/ exc.type \in {"APIConnectionError", "ConnectionError"}
    THEN [class |-> "connection", hint |-> "Check: endpoint, network, deployment",
          type |-> None, msg |-> {}]
    ELSE IF "401" \in exc.msg \/ "Unauthorized" \in exc.msg
    THEN [class |-> "authentication", hint |-> "Check: API key",
          type |-> None, msg |-> {}]
    ELSE IF "404" \in exc.msg \/ {"not found", "Not Found", "NOT FOUND"} \cap exc.msg # {}
    THEN [class |-> "deployment_not_found", hint |-> "Check: deployment name",
          type |-> None, msg |-> {}]
    ELSE [class |-> "unclassified", hint |-> None,
          type |-> exc.type, msg |-> exc.msg]

LoopContinuesOneMore(k) == k + 1 <= max_retries

\* for attempt in range(self.max_retries): whether an attempt follows attempt k.
LoopContinues(k) == k + 1 < max_retries

\* self.client.embeddings.create(...) raises: the except branch, and, after
\* the last attempt, the end of the loop and the raise that follows it.
EmbeddingsCreateRaises ==
    /\ e_pc = "call"
    /\ \E exc \in ExceptionSet :
        /\ last_exception' = exc
        /\ call_log' = Append(call_log, "fail")
        /\ sleeps' = IF RetryAfter(attempt) THEN Append(sleeps, WaitTime(attempt))
                                            ELSE sleeps
        /\ attempt' = attempt + 1
        /\ IF LoopContinues(attempt)
           THEN e_pc' = "call" /\ e_error' = e_error
           ELSE e_pc' = "raised" /\ e_error' = DetailedError(exc)
    /\ UNCHANGED <<texts, valid_texts, embeddings>>

\* ------------------------------------------------------------------------
\* SearchService: the index schema (services/search_service.py)
\* ------------------------------------------------------------------------
Instances == 1..MaxInstances

\* The index definition _create_index builds: the key field, the vector
\* field's length and the HNSW parameters.
IndexSchema ==
    [key |-> "id", vector_field |-> "content_vector", vector_search_dimensions |-> 1536,
     kind |-> "hnsw", m |-> 4, ef_construction |-> 400, ef_search |-> 500,
     metric |-> "cosine"]

\* An index of the same name that an earlier deployment left behind.
LegacySchema == [IndexSchema EXCEPT !.vector_search_dimensions = 3072]

NoSchema == [IndexSchema EXCEPT !.key = None]
NoIndex == [exists |-> FALSE, schema |-> NoSchema]

\* The service before any instance touches it: no index, or one that exists.
IndexInit ==
    /\ index \in {NoIndex} \cup {[exists |-> TRUE, schema |-> sc] : sc \in {IndexSchema, LegacySchema}}
    /\ index_at_start = index
    /\ index_creates = <<>>
    /\ create_faults = FALSE
    /\ svc = [i \in Instances |->
                [pc |-> "new", existed |-> FALSE, get_calls |-> 0, create_calls |-> 0,
                 error |-> None]]

\* What the except clause of _ensure_index does with a failed lookup.
EnsureIndexOnErrorReraise(exists) == IF exists THEN "failed" ELSE "create"

\* except Exception: self._create_index(), whatever was raised.
EnsureIndexOnError(exists) == "create"

\* _ensure_index up to the return of get_index: the index is returned, or
\* the lookup raises (not found, or any other failure of the request).
EnsureIndexLookup(i) ==
    /\ svc[i].pc = "new"
    /\ \E outcome \in {"returns", "not_found", "error"} :
        /\ outcome = "returns" => index.exists
        /\ outcome = "not_found" => ~index.exists
        /\ svc' = [svc EXCEPT ![i] =
                     [@ EXCEPT !.existed = index.exists,
                               !.get_calls = @ + 1,
                               !.pc = IF outcome = "returns" THEN "ready"
                                      ELSE EnsureIndexOnError(index.exists),
                               !.error = IF outcome = "returns" THEN None
                                         ELSE IF EnsureIndexOnError(index.exists) = "failed"
                                         THEN "HttpResponseError" ELSE None]]
    /\ UNCHANGED <<index, index_at_start, index_creates, create_faults>>

CreateOrUpdateIndexCall(exists) == "created"

\* self.index_client.create_index(index): the service creates the index, or
\* refuses because an index of that name exists.
CreateIndexCall(exists) == IF exists THEN "conflict" ELSE "created"

\* _create_index: the create call, which may also fail in transit; every
\* failure is raised again and ends __init__.
CreateIndex(i) ==
    /\ svc[i].pc = "create"
    /\ \E fault \in BOOLEAN :
        LET result == IF fault THEN "fault" ELSE CreateIndexCall(index.exists)
        IN /\ index' = IF result = "created"
                       THEN [exists |-> TRUE, schema |-> IndexSchema] ELSE index
           /\ index_creates' = IF result = "created"
                               THEN Append(index_creates, i) ELSE index_creates
           /\ create_faults' = (create_faults \/ fault)
           /\ svc' = [svc EXCEPT ![i] =
                        [@ EXCEPT !.create_calls = @ + 1,
                                  !.pc = IF result = "created" THEN "ready" ELSE "failed",
                                  !.error = CASE result = "created" -> None
                                              [] result = "conflict" -> "ResourceExistsError"
                                              [] OTHER -> "HttpResponseError"]]
    /\ UNCHANGED index_at_start

\* ------------------------------------------------------------------------
\* SearchService.search and RAGService (services/rag_service.py)
\* ------------------------------------------------------------------------
DefaultTopK == 5

\* Records of the index, as search projects them (without the score).
IndexedDocs ==
    { [id |-> "file-1-chunk-0", file_id |-> "file-1", filename |-> "doc.pdf",
       chunk_index |-> 0, content |-> "The sky is blue."],
      [id |-> "file-1-chunk-1", file_id |-> "file-1", filename |-> "doc.pdf",
       chunk_index |-> 1, content |-> "Grass is green."],
      [id |-> "file-2-chunk-0", file_id |-> "file-2", filename |-> "notes.docx",
       chunk_index |-> 0, content |-> "Water is wet."] }

\* A result list: distinct records, best match first, with their scores.
RankedLists(n) ==
    { r \in SeqsUpTo(IndexedDocs, n) : \A i, j \in 1..Len(r) : i # j => r[i] # r[j] }

WithScores(r) == [i \in 1..Len(r) |-> r[i] @@ [score |-> 100 - i]]

\* What search(query_vector, top_k) can return: at most top_k results.
SearchOutcomes(k) ==
    IF k < 1 THEN {} ELSE {WithScores(r) : r \in RankedLists(Min2(k, MaxResults))}

NoDocumentsAnswer ==
    "I cannot answer this question because there are no documents uploaded and indexed yet. Please upload documents first, then ask your question."

NoResult == [answer |-> None, sources |-> <<>>, question |-> <<>>]
NoQueryError == [text |-> None, cause |-> NoError]

RAGServiceInit ==
    /\ q_pc = "idle"
    /\ question = <<>>
    /\ top_k_arg = <<>>
    /\ top_k = 0
    /\ search_results = <<>>
    /\ context = <<>>
    /\ q_result = NoResult
    /\ q_error = NoQueryError
    /\ q_log = <<>>

\* Questions ChatRequest accepts: any string of length >= 1.
Questions == { <<"x">>, <<" ">>, <<"x", " ", "x">> }

\* query(question, top_k) up to the first remote call of generate_embedding.
Query ==
    /\ q_pc = "idle"
    /\ \E q \in Questions, k \in Optional((0 - 1)..MaxTopK) :
        /\ question' = q
        /\ top_k_arg' = k
        /\ top_k' = PyOr(k, DefaultTopK)
        /\ GenerateEmbeddingBody(q)
    /\ q_pc' = "embed"
    /\ UNCHANGED <<search_results, context, q_result, q_error, q_log>>

\* generate_embedding raised: the exception leaves query().
QueryEmbeddingRaised ==
    /\ q_pc = "embed"
    /\ e_pc = "raised"
    /\ q_pc' = "raised"
    /\ q_error' = [text |-> "Failed to generate embeddings", cause |-> e_error]
    /\ UNCHANGED <<question, top_k_arg, top_k, search_results, context, q_result, q_log>>

\* _build_context: one labelled block per result, in the order given.
BuildContext(results) ==
    [i \in 1..Len(results) |->
        [document |-> i, filename |-> results[i].filename,
         chunk_index |-> results[i].chunk_index, content |-> results[i].content]]

\* The results put in ascending order of chunk_index.
SortedByChunkIndex(results) ==
    CHOOSE s \in [1..Len(results) -> {results[i] : i \in 1..Len(results)}] :
        /\ \A i \in 1..Len(results) : \E j \in 1..Len(results) : s[j] = results[i]
        /\ \A i, j \in 1..Len(results) : i < j => s[i].chunk_index <= s[j].chunk_index

FormatSourcesByChunkIndex(results) ==
    [i \in 1..Len(results) |->
        [content |-> SortedByChunkIndex(results)[i].content,
         file_id |-> SortedByChunkIndex(results)[i].file_id,
         filename |-> SortedByChunkIndex(results)[i].filename,
         chunk_index |-> SortedByChunkIndex(results)[i].chunk_index,
         score |-> SortedByChunkIndex(results)[i].score]]

\* _format_sources: one SourceDocument per result, in the order given.
FormatSources(results) ==
    [i \in 1..Len(results) |->
        [content |-> results[i].content, file_id |-> results[i].file_id,
         filename |-> results[i].filename, chunk_index |-> results[i].chunk_index,
         score |-> results[i].score]]

NoResultsNever(results) == FALSE

\* if not search_results
NoResults(results) == results = <<>>

\* The embedding is back: the search call; with no results the fixed answer
\* is returned, otherwise the context is built for the completion call.
QuerySearch ==
    /\ q_pc = "embed"
    /\ e_pc = "returned"
    /\ q_log' = Append(q_log, [call |-> "search",
                               vector |-> GenerateEmbeddingResult(question), k |-> top_k])
    /\ \/ \E results \in SearchOutcomes(top_k) :
            /\ search_results' = results
            /\ IF NoResults(results)
               THEN /\ q_pc' = "done"
                    /\ q_result' = [answer |-> NoDocumentsAnswer, sources |-> <<>>,
                                    question |-> question]
                    /\ context' = context
               ELSE /\ q_pc' = "generate"
                    /\ context' = BuildContext(results)
                    /\ q_result' = q_result
            /\ q_error' = q_error
       \/ /\ q_pc' = "raised"
          /\ q_error' = [text |-> "search", cause |->
                            [NoError EXCEPT !.type = "HttpResponseError"]]
          /\ UNCHANGED <<search_results, context, q_result>>
    /\ UNCHANGED <<question, top_k_arg, top_k>>

\* _generate_answer: the chat completion returns; the sources are formatted
\* and query() returns.
QueryGenerateReturns ==
    /\ q_pc = "generate"
    /\ q_log' = Append(q_log, [call |-> "generate", vector |-> EmptyVector, k |-> 0])
    /\ q_pc' = "done"
    /\ q_result' = [answer |-> "answer", sources |-> FormatSources(search_results),
                    question |-> question]
    /\ UNCHANGED <<question, top_k_arg, top_k, search_results, context, q_error>>

OnGenerateFailureRetry == "generate"

\* except Exception as e: raise Exception(f"Failed to generate answer: {e}")
OnGenerateFailure == "raised"

\* _generate_answer: the chat completion raises; the failure is wrapped and
\* raised out of query().
QueryGenerateRaises ==
    /\ q_pc = "generate"
    /\ q_log' = Append(q_log, [call |-> "generate", vector |-> EmptyVector, k |-> 0])
    /\ q_pc' = OnGenerateFailure
    /\ \E exc \in ExceptionSet :
        q_error' = [text |-> "Failed to generate answer",
                    cause |-> [NoError EXCEPT !.type = exc.type, !.msg = exc.msg]]
    /\ UNCHANGED <<question, top_k_arg, top_k, search_results, context, q_result>>

\* ------------------------------------------------------------------------
\* ChunkingService (services/chunking_service.py)
\* ------------------------------------------------------------------------

\* __init__(chunk_size, chunk_overlap) under the given settings; encoding is
\* the tiktoken encoding, or None when tiktoken cannot be loaded.
ChunkingServiceInit(arg_size, arg_overlap, settings, enc) ==
    /\ init_args = [chunk_size |-> arg_size, chunk_overlap |-> arg_overlap,
                    settings |-> settings]
    /\ chunk_size = PyOr(arg_size, settings.chunk_size)
    /\ chunk_overlap = PyOr(arg_overlap, settings.chunk_overlap)
    /\ encoding = enc
    /\ c_pc = "idle"
    /\ text = <<>>
    /\ tokens = <<>>
    /\ metadata = <<>>
    /\ start_idx = 0
    /\ chunks = <<>>
    /\ windows = <<>>

ChunkingServiceNew ==
    \E arg_size \in Optional(1..MaxChunkArg),
       arg_overlap \in Optional(0..MaxChunkArg),
       settings \in SettingsSet,
       enc \in {"cl100k_base", None} :
        ChunkingServiceInit(arg_size, arg_overlap, settings, enc)

\* The body of chunk_text for the text txt whose encoding is toks.
ChunkTextBody(txt, toks, md) ==
    /\ text' = txt
    /\ metadata' = md
    /\ start_idx' = 0
    /\ chunks' = <<>>
    /\ windows' = <<>>
    /\ IF IsBlank(txt)
       THEN /\ c_pc' = "done"
            /\ tokens' = <<>>
       ELSE /\ c_pc' = "loop"
            /\ tokens' = IF encoding # None THEN toks ELSE <<>>

\* chunk_text(text, metadata) on a service that has a tokenizer.
ChunkTextTokens ==
    /\ c_pc = "idle"
    /\ encoding # None
    /\ \E toks \in TokenInputs \cup {BigDoc}, md \in MetadataSet :
        /\ toks = BigDoc => chunk_size = DefaultChunkSize
        /\ ChunkTextBody(decode(toks), toks, md)
    /\ UNCHANGED <<init_args, chunk_size, chunk_overlap, encoding>>

\* chunk_text(text, metadata) on a service without a tokenizer.
ChunkTextChars ==
    /\ c_pc = "idle"
    /\ encoding = None
    /\ \E txt \in CharInputs, md \in MetadataSet :
        ChunkTextBody(txt, <<>>, md)
    /\ UNCHANGED <<init_args, chunk_size, chunk_overlap, encoding>>

\* The chunk dictionary: the bookkeeping keys, then **metadata, whose keys
\* replace equal keys written before them.
TokenChunk(content, idx, s, e, md) ==
    md @@ [content |-> content, chunk_index |-> idx,
           start_token |-> s, end_token |-> e]

CharChunk(content, idx, s, e, md) ==
    md @@ [content |-> content, chunk_index |-> idx,
           start_char |-> s, end_char |-> e]

TokenNextStartNoOverlap(end_idx) == end_idx

\* start_idx = end_idx - self.chunk_overlap
TokenNextStart(end_idx) == end_idx - chunk_overlap

\* One iteration of the while loop of _chunk_with_tokens (or its exit).
ChunkWithTokensStep ==
    /\ c_pc = "loop"
    /\ encoding # None
    /\ Len(chunks) < MaxChunks
    /\ IF start_idx < Len(tokens)
       THEN LET end_idx == Min2(start_idx + chunk_size, Len(tokens))
                chunk_tokens == PySlice(tokens, start_idx, end_idx)
                chunk == TokenChunk(decode(chunk_tokens), Len(chunks),
                                    start_idx, end_idx, metadata)
            IN /\ chunks' = Append(chunks, chunk)
               /\ windows' = Append(windows, <<start_idx, end_idx>>)
               /\ IF end_idx >= Len(tokens)
                  THEN /\ c_pc' = "done"
                       /\ start_idx' = start_idx
                  ELSE /\ c_pc' = "loop"
                       /\ start_idx' = TokenNextStart(end_idx)
       ELSE /\ c_pc' = "done"
            /\ UNCHANGED <<chunks, windows, start_idx>>
    /\ UNCHANGED <<init_args, chunk_size, chunk_overlap, encoding, text, tokens, metadata>>

\* The window end of _chunk_with_characters: the size limit, snapped back to
\* just after the last space or newline of the window.
CharWindowEnd(s) ==
    LET char_chunk_size == chunk_size * 4
        end_idx == Min2(s + char_chunk_size, Len(text))
    IN IF end_idx < Len(text)
       THEN LET last_break == rfind(text, " ", s, end_idx)
                last_newline == rfind(text, "\n", s, end_idx)
                break_point == Max2(last_break, last_newline)
            IN IF break_point > s THEN break_point + 1 ELSE end_idx
       ELSE end_idx

CharNextStartOffByOne(s, end_idx) == Max2(s + 1, end_idx + 1 - chunk_overlap * 4)

CharNextStartNoFloor(s, end_idx) == end_idx - chunk_overlap * 4

\* start_idx = max(start_idx + 1, end_idx - char_overlap)
CharNextStart(s, end_idx) == Max2(s + 1, end_idx - chunk_overlap * 4)

\* One iteration of the while loop of _chunk_with_characters (or its exit).
ChunkWithCharactersStep ==
    /\ c_pc = "loop"
    /\ encoding = None
    /\ IF start_idx < Len(text)
       THEN LET end_idx == CharWindowEnd(start_idx)
                chunk_text == Strip(PySlice(text, start_idx, end_idx))
                chunk == CharChunk(chunk_text, Len(chunks),
                                   start_idx, end_idx, metadata)
            IN /\ chunks' = IF chunk_text # <<>> THEN Append(chunks, chunk) ELSE chunks
               /\ windows' = Append(windows, <<start_idx, end_idx>>)
               /\ IF end_idx >= Len(text)
                  THEN /\ c_pc' = "done"
                       /\ start_idx' = start_idx
                  ELSE /\ c_pc' = "loop"
                       /\ start_idx' = CharNextStart(start_idx, end_idx)
       ELSE /\ c_pc' = "done"
            /\ UNCHANGED <<chunks, windows, start_idx>>
    /\ UNCHANGED <<init_args, chunk_size, chunk_overlap, encoding, text, tokens, metadata>>

\* ------------------------------------------------------------------------
\* DocumentParser (services/document_parser.py)
\* ------------------------------------------------------------------------
\* Length of the whitespace run s starts with.
WhitespaceRun(s) ==
    IF \E i \in 1..Len(s) : ~IsSpace(s[i])
    THEN SetMin({i \in 1..Len(s) : ~IsSpace(s[i])}) - 1
    ELSE Len(s)

\* re.sub(r'\s+', ' ', text)
RECURSIVE CollapseWhitespace(_)
CollapseWhitespace(s) ==
    IF s = <<>> THEN <<>>
    ELSE IF IsSpace(s[1])
    THEN <<" ">> \o CollapseWhitespace(SubSeq(s, WhitespaceRun(s) + 1, Len(s)))
    ELSE <<s[1]>> \o CollapseWhitespace(Tail(s))

\* re.sub(r'\n\s*\n\s*\n+', '\n\n', text): a match starts at a newline whose
\* whitespace run holds three newlines or more, and ends at the last of them.
RECURSIVE CollapseBlankLines(_)
CollapseBlankLines(s) ==
    IF s = <<>> THEN <<>>
    ELSE LET newlines == {i \in 1..WhitespaceRun(s) : s[i] = "\n"}
         IN  IF s[1] = "\n" /\ Cardinality(newlines) >= 3
             THEN <<"\n", "\n">> \o CollapseBlankLines(SubSeq(s, SetMax(newlines) + 1, Len(s)))
             ELSE <<s[1]>> \o CollapseBlankLines(Tail(s))

normalize_text(s) == Strip(CollapseBlankLines(CollapseWhitespace(s)))

\* sep.join(parts)
RECURSIVE Join(_, _)
Join(parts, sep) ==
    IF parts = <<>> THEN <<>>
    ELSE IF Len(parts) = 1 THEN parts[1]
    ELSE parts[1] \o sep \o Join(Tail(parts), sep)

\* The items of a source file as the libraries present them: the pages of
\* a PDF, and the paragraphs and tables of the body of a DOCX.
Page(t, r) == [kind |-> "page", text |-> t, rows |-> <<>>, raises |-> r]
Paragraph(t) == [kind |-> "paragraph", text |-> t, rows |-> <<>>, raises |-> FALSE]
Table(rows) == [kind |-> "table", text |-> <<>>, rows |-> rows, raises |-> FALSE]

\* PDF files: one page with any text, and files of MaxPages pages some of
\* which have no text or make extract_text raise.
PdfDocuments ==
    {<<Page(t, FALSE)>> : t \in CharInputs} \cup
    [1..MaxPages -> {Page(<<"x">>, FALSE), Page(<<>>, FALSE), Page(<<"x">>, TRUE),
                     Page(<<"\n", "x", " ">>, FALSE)}]

ParagraphTexts == {<<"p">>, <<"q">>, <<" ">>}
CellTexts == {<<"c">>, <<" ">>, <<"c", " ">>}
Rows == SeqsUpTo(CellTexts, 2) \ {<<>>}
Tables == {Table(<<r>>) : r \in Rows} \cup {Table(<< <<<<"c">>>>, <<<<" ">>>>, <<<<"c">>, <<"c">>>> >>)}

\* DOCX files: up to MaxBlocks paragraphs and tables, in any order.
DocxDocuments == SeqsUpTo({Paragraph(t) : t \in ParagraphTexts} \cup Tables, MaxBlocks)

\* for page in reader.pages: the text of a page is kept when extract_text
\* returns a non-empty string; a page whose extraction raises is skipped.
PdfTextParts(pages) ==
    LET kept == SelectSeq(pages, LAMBDA pg : ~pg.raises /\ pg.text # <<>>)
    IN [i \in 1..Len(kept) |-> kept[i].text]

\* " | ".join(cell.text.strip() for cell in row.cells if cell.text.strip())
RowText(row) ==
    LET cells == SelectSeq(row, LAMBDA cell : Strip(cell) # <<>>)
    IN Join([i \in 1..Len(cells) |-> Strip(cells[i])], <<" ", "|", " ">>)

\* for row in table.rows: if row_text: text_parts.append(row_text)
TableTextParts(table) ==
    SelectSeq([i \in 1..Len(table.rows) |-> RowText(table.rows[i])], LAMBDA t : t # <<>>)

\* for paragraph in doc.paragraphs: if paragraph.text.strip(): append
ParagraphTextParts(blocks) ==
    LET kept == SelectSeq(blocks, LAMBDA b : b.kind = "paragraph" /\ Strip(b.text) # <<>>)
    IN [i \in 1..Len(kept) |-> kept[i].text]

\* for table in doc.tables: the rows of every table, table after table.
RECURSIVE TablesTextParts(_)
TablesTextParts(blocks) ==
    IF blocks = <<>> THEN <<>>
    ELSE (IF blocks[1].kind = "table" THEN TableTextParts(blocks[1]) ELSE <<>>)
             \o TablesTextParts(Tail(blocks))

\* The text_parts of parse_docx: the loop over doc.paragraphs, then the
\* loop over doc.tables.
DocxTextParts(blocks) == ParagraphTextParts(blocks) \o TablesTextParts(blocks)

DocumentParserInit ==
    /\ p_pc = "idle"
    /\ parser = None
    /\ p_doc = <<>>
    /\ text_parts = <<>>
    /\ full_text = <<>>
    /\ normalized_text = <<>>

\* The common end of parse_pdf and parse_docx: "\n".join(text_parts), then
\* _normalize_text.
ParseReturns(name, d, parts) ==
    /\ p_pc' = "done"
    /\ parser' = name
    /\ p_doc' = d
    /\ text_parts' = parts
    /\ full_text' = Join(parts, <<"\n">>)
    /\ normalized_text' = normalize_text(Join(parts, <<"\n">>))

\* parse_pdf(file_path)
ParsePdf ==
    /\ p_pc = "idle"
    /\ \E d \in PdfDocuments : ParseReturns("parse_pdf", d, PdfTextParts(d))

\* parse_docx(file_path)
ParseDocx ==
    /\ p_pc = "idle"
    /\ \E d \in DocxDocuments : ParseReturns("parse_docx", d, DocxTextParts(d))

\* PdfReader(file_path) or Document(file_path) raises: the exception is
\* logged and raised again.
ParseRaises ==
    /\ p_pc = "idle"
    /\ p_pc' = "raised"
    /\ parser' \in {"parse_pdf", "parse_docx"}
    /\ UNCHANGED <<p_doc, text_parts, full_text, normalized_text>>

\* parse_file dispatches on the lower-cased suffix of the staged file.
Lower(suffix) == IF suffix = ".PDF" THEN ".pdf" ELSE suffix

ParserFor(suffix) ==
    IF Lower(suffix) = ".pdf" THEN "parse_pdf"
    ELSE IF Lower(suffix) \in {".doc", ".docx"} THEN "parse_docx"
    ELSE "ValueError"

\* The texts a parser can return, each with its encoding: every text that
\* _normalize_text leaves as it is.
ParsedTokens ==
    {t \in SeqsUpTo(Vocab, MaxDocTokens) : Canonical(t) /\ normalize_text(decode(t)) = decode(t)}

\* ------------------------------------------------------------------------
\* Upload validation (core/security.py, core/config.py)
\* ------------------------------------------------------------------------
MaxFileSizeMB == 50
AllowedFileExtensions == {".pdf", ".doc", ".docx"}

ValidateFileTypeAny(suffix) == TRUE

validate_file_type(suffix) == Lower(suffix) \in AllowedFileExtensions
validate_file_size(file_size) == file_size <= MaxFileSizeMB * 1024 * 1024

\* Uploaded files: the suffix of the name and the number of bytes.
Files ==
    [suffix : {".pdf", ".PDF", ".docx", ".exe"},
     size : {MaxFileSizeMB * 1024 * 1024, MaxFileSizeMB * 1024 * 1024 + 1}]

NoFile == [suffix |-> None, size |-> 0]

\* ------------------------------------------------------------------------
\* POST /upload (api/v1/routes/upload.py) and SearchService.upload_documents
\* ------------------------------------------------------------------------
StageOrder == <<"validate", "stage", "blob", "extract", "chunk", "embed", "upsert">>

FileId == "file-1"

\* A response body: the text of the message, the number and the record ids
\* interpolated into it, and the error it wraps.
Detail(txt, n, ids, cause) == [text |-> txt, count |-> n, records |-> ids, cause |-> cause]

HTTPException(code, detail) == [status_code |-> code, detail |-> detail]

UploadResponse(n) ==
    [status_code |-> 200,
     detail |-> Detail("File uploaded and indexed successfully. {n} chunks created.", n, {}, NoError)]

\* except Exception as e: detail = f"Failed to upload and index file: {str(e)}"
UploadFailed(txt, n, ids, cause) ==
    HTTPException(500, Detail("Failed to upload and index file: " \o txt, n, ids, cause))

Raised(type) == [NoError EXCEPT !.type = type]

\* general_exception_handler: the answer to an exception no handler caught.
general_exception_handler(exc) ==
    [status_code |-> 500,
     detail |-> IF debug
                THEN Detail("Internal server error: {str(exc)}", 0, {}, exc)
                ELSE Detail("Internal server error: An unexpected error occurred", 0, {}, NoError)]

UploadInit ==
    /\ u_pc = "idle"
    /\ file = NoFile
    /\ temp_file = FALSE
    /\ cleanup = "none"
    /\ blobs = {}
    /\ u_text = <<>>
    /\ index_docs = {}
    /\ upsert_failed = {}
    /\ stage_log = <<>>
    /\ raised_at = None
    /\ responses = <<>>

\* The handler ends: the response is sent.
Respond(r) ==
    /\ responses' = Append(responses, r)
    /\ u_pc' = "done"

UnlinkSkipped(exists, unlinked) == exists

\* if temp_path.exists(): temp_path.unlink() -- whether the file is still there.
Unlink(exists, unlinked) == exists /\ ~unlinked

\* finally: the staged file is unlinked; a failure to unlink is logged only.
Finally ==
    \E unlinked \in BOOLEAN :
        /\ temp_file' = Unlink(temp_file, unlinked)
        /\ cleanup' = IF unlinked THEN "unlinked" ELSE "failed"

\* A dependency of the handler raises while it is constructed (SearchService
\* and BlobService reach their stores in __init__): the handler body never
\* runs and the exception goes to general_exception_handler.
UploadDependencyRaises ==
    /\ u_pc = "idle"
    /\ Respond(general_exception_handler(Raised("HttpResponseError")))
    /\ UNCHANGED <<file, temp_file, cleanup, blobs, u_text, index_docs, upsert_failed,
                   stage_log, raised_at>>

\* The request arrives: validate_upload_file.
UploadFile ==
    /\ u_pc = "idle"
    /\ \E f \in Files :
        /\ file' = f
        /\ stage_log' = Append(stage_log, "validate")
        /\ IF validate_file_type(f.suffix)
           THEN /\ u_pc' = "read"
                /\ responses' = responses
           ELSE Respond(HTTPException(400, Detail("File type not allowed", 0, {}, NoError)))
    /\ UNCHANGED <<temp_file, cleanup, blobs, u_text, index_docs, upsert_failed, raised_at>>

\* The bytes are read, their number is checked and they are written to the
\* temp directory.
ReadAndStage ==
    /\ u_pc = "read"
    /\ IF ~validate_file_size(file.size)
       THEN /\ Respond(HTTPException(400, Detail("File size exceeds maximum allowed size",
                                                 MaxFileSizeMB, {}, NoError)))
            /\ UNCHANGED <<temp_file, cleanup, stage_log, raised_at>>
       ELSE /\ stage_log' = Append(stage_log, "stage")
            /\ cleanup' = cleanup
            /\ \/ /\ temp_file' = TRUE
                  /\ u_pc' = "blob"
                  /\ UNCHANGED <<raised_at, responses>>
               \/ /\ temp_file' \in BOOLEAN
                  /\ raised_at' = "stage"
                  /\ Respond(UploadFailed("{e}", 0, {}, Raised("OSError")))
    /\ UNCHANGED <<file, blobs, u_text, index_docs, upsert_failed>>

\* blob_service.upload_file
BlobUpload ==
    /\ u_pc = "blob"
    /\ stage_log' = Append(stage_log, "blob")
    /\ \/ /\ blobs' = blobs \cup {FileId}
          /\ u_pc' = "extract"
          /\ UNCHANGED <<temp_file, cleanup, raised_at, responses>>
       \/ /\ raised_at' = "blob"
          /\ Finally
          /\ Respond(UploadFailed("{e}", 0, {}, Raised("HttpResponseError")))
          /\ blobs' = blobs
    /\ UNCHANGED <<file, u_text, index_docs, upsert_failed>>

TextIsEmpty(t) == t = <<>> \/ Strip(t) = <<>>

ChunkMetadata == [file_id |-> FileId, filename |-> "document" \o file.suffix]

\* parser.parse_file; a non-empty text is handed to chunk_text.
ParseFile ==
    /\ u_pc = "extract"
    /\ \/ /\ ParserFor(file.suffix) # "ValueError"
          /\ \E toks \in ParsedTokens :
                /\ u_text' = decode(toks)
                /\ IF TextIsEmpty(decode(toks))
                   THEN /\ stage_log' = Append(stage_log, "extract")
                        /\ Finally
                        /\ Respond(HTTPException(400,
                               Detail("Failed to extract text from document", 0, {}, NoError)))
                        /\ UNCHANGED <<text, tokens, metadata, start_idx, chunks, windows, c_pc>>
                   ELSE /\ stage_log' = stage_log \o <<"extract", "chunk">>
                        /\ ChunkTextBody(decode(toks), toks, ChunkMetadata)
                        /\ u_pc' = "chunk"
                        /\ UNCHANGED <<temp_file, cleanup, responses>>
          /\ raised_at' = raised_at
       \/ /\ stage_log' = Append(stage_log, "extract")
          /\ raised_at' = "extract"
          /\ Finally
          /\ Respond(UploadFailed("{e}", 0, {}, Raised(
                IF ParserFor(file.suffix) = "ValueError" THEN "ValueError" ELSE "Exception")))
          /\ UNCHANGED <<u_text, text, tokens, metadata, start_idx, chunks, windows, c_pc>>
    /\ UNCHANGED <<file, blobs, index_docs, upsert_failed, init_args, chunk_size, chunk_overlap, encoding>>

NoChunks(cs) == cs = <<>>

\* chunk_text has returned: an empty list ends the request, any other is
\* sent to generate_embeddings.
EmbedChunks ==
    /\ u_pc = "chunk"
    /\ c_pc = "done"
    /\ IF NoChunks(chunks)
       THEN /\ Finally
            /\ Respond(HTTPException(400, Detail("Failed to chunk document", 0, {}, NoError)))
            /\ UNCHANGED <<stage_log, embedVars>>
       ELSE /\ stage_log' = Append(stage_log, "embed")
            /\ GenerateEmbeddingsBody([i \in 1..Len(chunks) |-> chunks[i].content])
            /\ u_pc' = "embed"
            /\ UNCHANGED <<temp_file, cleanup, responses>>
    /\ UNCHANGED <<file, blobs, u_text, index_docs, upsert_failed, raised_at>>

\* generate_embeddings raised after its last attempt.
EmbeddingFailed ==
    /\ u_pc = "embed"
    /\ e_pc = "raised"
    /\ Finally
    /\ Respond(UploadFailed("Failed to generate embeddings after {n} attempts: {detailed_error}",
                            max_retries, {}, e_error))
    /\ UNCHANGED <<file, blobs, u_text, index_docs, upsert_failed, stage_log, raised_at>>

MismatchNever(es, cs) == FALSE

\* if len(embeddings) != len(chunks)
Mismatch(es, cs) == Len(es) # Len(cs)

\* The search documents built from zip(chunks, embeddings).
SearchDocuments ==
    [i \in 1..Min2(Len(chunks), Len(embeddings)) |->
        [id |-> [file_id |-> FileId, chunk |-> i - 1],
         file_id |-> FileId,
         filename |-> ChunkMetadata.filename,
         chunk_index |-> chunks[i].chunk_index,
         content |-> chunks[i].content,
         content_vector |-> embeddings[i]]]

\* raise Exception(f"Failed to upload {len(failed)} documents")
FailedRecords(failed) == {}

StoreAcceptsAnyVector(doc) == FALSE

\* The index declares content_vector with vector_search_dimensions: the
\* store refuses a record whose vector has another length.
StoreRefuses(doc) == doc.content_vector.dim # index.schema.vector_search_dimensions

\* upload_documents(documents) with the per-record results of the store:
\* the records that succeeded are written, and any failed record makes the
\* call raise one exception.
UploadDocuments(documents) ==
    IF documents = <<>>
    THEN /\ Finally
         /\ Respond(UploadResponse(Len(chunks)))
         /\ UNCHANGED <<index_docs, upsert_failed, raised_at>>
    ELSE \/ \E failed \in SUBSET {documents[i].id : i \in 1..Len(documents)} :
            /\ \A i \in 1..Len(documents) : StoreRefuses(documents[i]) => documents[i].id \in failed
            /\ index_docs' = index_docs \cup
                    {documents[i] : i \in {j \in 1..Len(documents) : documents[j].id \notin failed}}
            /\ upsert_failed' = failed
            /\ Finally
            /\ IF failed # {}
               THEN Respond(UploadFailed("Failed to upload {len(failed)} documents",
                                Cardinality(failed), FailedRecords(failed), Raised("Exception")))
               ELSE Respond(UploadResponse(Len(chunks)))
            /\ raised_at' = raised_at
         \/ /\ raised_at' = "upsert"
            /\ Finally
            /\ Respond(UploadFailed("{e}", 0, {}, Raised("HttpResponseError")))
            /\ UNCHANGED <<index_docs, upsert_failed>>

\* generate_embeddings has returned: the counts are compared and the search
\* documents are sent to the index.
IndexUpsert ==
    /\ u_pc = "embed"
    /\ e_pc = "returned"
    /\ IF Mismatch(embeddings, chunks)
       THEN /\ Finally
            /\ Respond(HTTPException(500,
                   Detail("Mismatch between chunks and embeddings", 0, {}, NoError)))
            /\ UNCHANGED <<stage_log, index_docs, upsert_failed, raised_at>>
       ELSE /\ stage_log' = Append(stage_log, "upsert")
            /\ UploadDocuments(SearchDocuments)
    /\ UNCHANGED <<file, blobs, u_text>>

\* ------------------------------------------------------------------------
\* POST /chat (api/v1/routes/chat.py)
\* ------------------------------------------------------------------------
\* get_rag_service raises while RAGService() is constructed: the handler
\* body never runs and the exception goes to general_exception_handler.
ChatDependencyRaises ==
    /\ q_pc = "idle"
    /\ q_pc' = "unhandled"
    /\ q_error' = [text |-> "unhandled", cause |-> Raised("HttpResponseError")]
    /\ UNCHANGED <<question, top_k_arg, top_k, search_results, context, q_result, q_log>>

NoResponse == [status_code |-> 0, detail |-> Detail(None, 0, {}, NoError)]

\* The response of the chat handler: the result of query(), or 500 with the
\* text of whatever query() raised.
ChatHandlerResponse ==
    IF q_pc = "done"
    THEN [status_code |-> 200, detail |-> Detail("ChatResponse", Len(q_result.sources), {}, NoError)]
    ELSE IF q_pc = "raised"
    THEN HTTPException(500, Detail("Failed to process chat request: " \o q_error.text, 0, {},
                                   q_error.cause))
    ELSE IF q_pc = "unhandled"
    THEN general_exception_handler(q_error.cause)
    ELSE NoResponse

\* ------------------------------------------------------------------------
\* Specifications
\* ------------------------------------------------------------------------

\* ChunkingService() as the entry points construct it.
ChunkingServiceDefault ==
    ChunkingServiceInit(<<>>, <<>>,
        [chunk_size |-> DefaultChunkSize, chunk_overlap |-> DefaultChunkOverlap],
        "cl100k_base")

\* An index that exists with the schema, and instances that are constructed.
IndexReady ==
    /\ index = [exists |-> TRUE, schema |-> IndexSchema]
    /\ index_at_start = index
    /\ index_creates = <<>>
    /\ create_faults = FALSE
    /\ svc = [i \in Instances |->
                [pc |-> "ready", existed |-> TRUE, get_calls |-> 1, create_calls |-> 0,
                 error |-> None]]

\* The chunker alone: a service built with any arguments, one chunk_text call.
InitChunk == ChunkingServiceNew /\ EmbeddingServiceInit /\ IndexReady /\ RAGServiceInit /\ UploadInit /\ DocumentParserInit /\ debug = FALSE

NextChunk ==
    \/ ChunkTextTokens /\ UNCHANGED <<embedVars, indexVars, queryVars, uploadVars, parseVars, debug>>
    \/ ChunkTextChars /\ UNCHANGED <<embedVars, indexVars, queryVars, uploadVars, parseVars, debug>>
    \/ ChunkWithTokensStep /\ UNCHANGED <<embedVars, indexVars, queryVars, uploadVars, parseVars, debug>>
    \/ ChunkWithCharactersStep /\ UNCHANGED <<embedVars, indexVars, queryVars, uploadVars, parseVars, debug>>

SpecChunk == InitChunk /\ [][NextChunk]_vars

\* The embedder alone: one generate_embeddings call.
InitEmbed == ChunkingServiceDefault /\ EmbeddingServiceInit /\ IndexReady /\ RAGServiceInit /\ UploadInit /\ DocumentParserInit /\ debug = FALSE

NextEmbed ==
    \/ GenerateEmbeddings /\ UNCHANGED <<chunkVars, indexVars, queryVars, uploadVars, parseVars, debug>>
    \/ EmbeddingsCreateReturns /\ UNCHANGED <<chunkVars, indexVars, queryVars, uploadVars, parseVars, debug>>
    \/ EmbeddingsCreateRaises /\ UNCHANGED <<chunkVars, indexVars, queryVars, uploadVars, parseVars, debug>>

SpecEmbed == InitEmbed /\ [][NextEmbed]_vars

\* SearchService() constructed by concurrent requests or processes.
InitIndex == ChunkingServiceDefault /\ EmbeddingServiceInit /\ IndexInit /\ RAGServiceInit /\ UploadInit /\ DocumentParserInit /\ debug = FALSE

NextIndex ==
    \/ \E i \in Instances : EnsureIndexLookup(i) /\ UNCHANGED <<chunkVars, embedVars, queryVars, uploadVars, parseVars, debug>>
    \/ \E i \in Instances : CreateIndex(i) /\ UNCHANGED <<chunkVars, embedVars, queryVars, uploadVars, parseVars, debug>>

SpecIndex == InitIndex /\ [][NextIndex]_vars

\* One query() call on a constructed RAGService.
InitQuery == ChunkingServiceDefault /\ EmbeddingServiceInit /\ IndexReady /\ RAGServiceInit /\ UploadInit /\ DocumentParserInit /\ debug \in BOOLEAN

NextQuery ==
    \/ ChatDependencyRaises /\ UNCHANGED <<chunkVars, embedVars, indexVars, uploadVars, parseVars, debug>>
    \/ Query /\ UNCHANGED <<chunkVars, indexVars, uploadVars, parseVars, debug>>
    \/ EmbeddingsCreateReturns /\ UNCHANGED <<chunkVars, indexVars, queryVars, uploadVars, parseVars, debug>>
    \/ EmbeddingsCreateRaises /\ UNCHANGED <<chunkVars, indexVars, queryVars, uploadVars, parseVars, debug>>
    \/ QueryEmbeddingRaised /\ UNCHANGED <<chunkVars, embedVars, indexVars, uploadVars, parseVars, debug>>
    \/ QuerySearch /\ UNCHANGED <<chunkVars, embedVars, indexVars, uploadVars, parseVars, debug>>
    \/ QueryGenerateReturns /\ UNCHANGED <<chunkVars, embedVars, indexVars, uploadVars, parseVars, debug>>
    \/ QueryGenerateRaises /\ UNCHANGED <<chunkVars, embedVars, indexVars, uploadVars, parseVars, debug>>

SpecQuery == InitQuery /\ [][NextQuery]_vars

\* The document parser alone: one parse_pdf or parse_docx call.
InitParse == ChunkingServiceDefault /\ EmbeddingServiceInit /\ IndexReady /\ RAGServiceInit /\ UploadInit /\ DocumentParserInit /\ debug = FALSE

NextParse ==
    \/ ParsePdf /\ UNCHANGED <<chunkVars, embedVars, indexVars, queryVars, uploadVars, debug>>
    \/ ParseDocx /\ UNCHANGED <<chunkVars, embedVars, indexVars, queryVars, uploadVars, debug>>
    \/ ParseRaises /\ UNCHANGED <<chunkVars, embedVars, indexVars, queryVars, uploadVars, debug>>

SpecParse == InitParse /\ [][NextParse]_vars

\* One upload request, served by services built from the settings.
ChunkingServiceFromSettings ==
    \E settings \in SettingsSet, enc \in {"cl100k_base", None} :
        ChunkingServiceInit(<<>>, <<>>, settings, enc)

InitIngest ==
    /\ ChunkingServiceFromSettings /\ EmbeddingServiceInit /\ IndexReady /\ RAGServiceInit
    /\ UploadInit /\ DocumentParserInit /\ debug \in BOOLEAN

NextIngest ==
    \/ UploadDependencyRaises /\ UNCHANGED <<chunkVars, embedVars, indexVars, queryVars, parseVars, debug>>
    \/ UploadFile /\ UNCHANGED <<chunkVars, embedVars, indexVars, queryVars, parseVars, debug>>
    \/ ReadAndStage /\ UNCHANGED <<chunkVars, embedVars, indexVars, queryVars, parseVars, debug>>
    \/ BlobUpload /\ UNCHANGED <<chunkVars, embedVars, indexVars, queryVars, parseVars, debug>>
    \/ ParseFile /\ UNCHANGED <<embedVars, indexVars, queryVars, parseVars, debug>>
    \/ ChunkWithTokensStep /\ UNCHANGED <<embedVars, indexVars, queryVars, uploadVars, parseVars, debug>>
    \/ ChunkWithCharactersStep /\ UNCHANGED <<embedVars, indexVars, queryVars, uploadVars, parseVars, debug>>
    \/ EmbedChunks /\ UNCHANGED <<chunkVars, indexVars, queryVars, parseVars, debug>>
    \/ EmbeddingsCreateReturns /\ UNCHANGED <<chunkVars, indexVars, queryVars, uploadVars, parseVars, debug>>
    \/ EmbeddingsCreateRaises /\ UNCHANGED <<chunkVars, indexVars, queryVars, uploadVars, parseVars, debug>>
    \/ EmbeddingFailed /\ UNCHANGED <<chunkVars, embedVars, indexVars, queryVars, parseVars, debug>>
    \/ IndexUpsert /\ UNCHANGED <<chunkVars, embedVars, indexVars, queryVars, parseVars, debug>>

SpecIngest == InitIngest /\ [][NextIngest]_vars

\* ------------------------------------------------------------------------
\* Properties of the upload request
\* ------------------------------------------------------------------------
IsPrefix(p, q) == Len(p) <= Len(q) /\ SubSeq(q, 1, Len(p)) = p
Ran(stage) == \E i \in 1..Len(stage_log) : stage_log[i] = stage
LastStage == stage_log[Len(stage_log)]

\* The stage that has failed, if any, read from what each stage produced.
StageHasFailed(stage) ==
    \/ raised_at = stage
    \/ stage = "validate" /\ Ran("validate")
            /\ (~validate_file_type(file.suffix) \/ (u_pc = "done" /\ ~validate_file_size(file.size)))
    \/ stage = "extract" /\ Ran("extract") /\ raised_at = None /\ TextIsEmpty(u_text)
    \/ stage = "chunk" /\ Ran("chunk") /\ c_pc = "done" /\ chunks = <<>>
    \/ stage = "embed" /\ Ran("embed")
            /\ (e_pc = "raised" \/ (e_pc = "returned" /\ Len(embeddings) # Len(chunks)))
    \/ stage = "upsert" /\ Ran("upsert") /\ upsert_failed # {}

Stages == {StageOrder[i] : i \in 1..Len(StageOrder)}

\* C1: the stages of an upload run in the order validate, stage temp file,
\* blob store, extract, chunk, embed, index upsert; once a stage has failed
\* no later stage runs, and the request ends with exactly one response, an
\* error and never a success.
C1_StagesInOrderAbortOnFailure ==
    /\ IsPrefix(stage_log, StageOrder)
    /\ Len(responses) <= 1
    /\ \A stage \in Stages :
        StageHasFailed(stage) =>
            /\ LastStage = stage
            /\ \A i \in 1..Len(responses) : responses[i].status_code >= 400
            /\ u_pc = "done" => Len(responses) = 1

C1_Witness ==
    /\ u_pc = "done"
    /\ StageHasFailed("embed")
    /\ Len(embeddings) # Len(chunks)
    /\ stage_log = SubSeq(StageOrder, 1, 6)
    /\ Len(responses) = 1
    /\ responses[1].status_code = 500

\* C10: when the store reports failed records for an upsert, the request
\* is answered with one server error, and that error names the records
\* that failed.
C10_PartialFailureNamesRecords ==
    (u_pc = "done" /\ upsert_failed # {}) =>
        /\ Len(responses) = 1
        /\ responses[1].status_code = 500
        /\ responses[1].detail.records = upsert_failed

\* The request has completed after its bytes were staged.
CompletedAfterStaging == u_pc = "done" /\ Ran("blob")

\* C11 (as stated): once the bytes of an upload are staged, the temp file
\* no longer exists when the request completes, on every exit path.
C11_AsStated == CompletedAfterStaging => ~temp_file

\* C11 (amended): once the bytes of an upload are staged, every exit path
\* runs the cleanup before the response; the temp file no longer exists
\* unless the unlink itself failed, and then it is still there.
C11_TempFileCleanup ==
    CompletedAfterStaging =>
        /\ cleanup # "none"
        /\ cleanup = "unlinked" => ~temp_file
        /\ cleanup = "failed" => temp_file

C11_Witness ==
    /\ CompletedAfterStaging
    /\ raised_at = "upsert"
    /\ cleanup = "unlinked"
    /\ ~temp_file

TheResponse == responses[1]
EmptyTextExit == Ran("extract") /\ raised_at = None /\ TextIsEmpty(u_text)
EmptyChunksExit == Ran("chunk") /\ c_pc = "done" /\ chunks = <<>>
MismatchExit == Ran("embed") /\ e_pc = "returned" /\ Len(embeddings) # Len(chunks)
OtherFailureExit == raised_at # None \/ (Ran("embed") /\ e_pc = "raised") \/ upsert_failed # {}

\* C18: an upload ends with 400 when the extracted text is blank, with 400
\* when the chunk list is empty, with 500 when the numbers of embeddings
\* and chunks differ, and with 500 carrying a message for any other
\* failure; in all four cases no record is written to the index.
C18_ExitConditions ==
    (u_pc = "done" /\ Len(responses) = 1) =>
        /\ EmptyTextExit => (TheResponse.status_code = 400 /\ index_docs = {})
        /\ EmptyChunksExit => (TheResponse.status_code = 400 /\ index_docs = {})
        /\ MismatchExit => (TheResponse.status_code = 500 /\ index_docs = {})
        /\ OtherFailureExit =>
              /\ TheResponse.status_code = 500
              /\ TheResponse.detail.cause # NoError
              /\ index_docs = {}

\* C19: a file whose extension is not allowed is answered with 400 by the
\* validation, before its bytes are read or staged, before anything is
\* stored in blob storage and before the parser is called.
C19_DisallowedExtensionRejectedFirst ==
    (Ran("validate") /\ Lower(file.suffix) \notin AllowedFileExtensions) =>
        /\ u_pc = "done"
        /\ stage_log = <<"validate">>
        /\ Len(responses) = 1
        /\ TheResponse.status_code = 400
        /\ ~temp_file
        /\ cleanup = "none"
        /\ blobs = {}
        /\ u_text = <<>>
        /\ index_docs = {}

C19_Witness ==
    /\ u_pc = "done"
    /\ file.suffix = ".exe"
    /\ stage_log = <<"validate">>
    /\ TheResponse.status_code = 400

\* C20: with debug off, a 5xx response of the upload or of the chat entry
\* point carries a fixed message only and nothing of the exception that
\* caused it, so it is the same whatever the text of that exception.
C20_ProductionMessageIsSafe ==
    ~debug =>
        /\ \A i \in 1..Len(responses) :
              responses[i].status_code >= 500 => responses[i].detail.cause = NoError
        /\ ChatHandlerResponse.status_code >= 500 => ChatHandlerResponse.detail.cause = NoError

C29_ErrorLeavesNothing ==
    (u_pc = "done" /\ Len(responses) = 1 /\ TheResponse.status_code # 200) =>
        /\ FileId \notin blobs
        /\ \A rec \in index_docs : rec.file_id # FileId

\* ------------------------------------------------------------------------
\* Properties of the document parser
\* ------------------------------------------------------------------------
Parsed == p_pc = "done"

\* s holds, between two non-whitespace characters, a whitespace run with n
\* newlines or more.
HasNewlineRun(s, n) ==
    \E i \in 1..Len(s) : \E j \in i..Len(s) :
        /\ i > 1 /\ j < Len(s)
        /\ \A k \in i..j : IsSpace(s[k])
        /\ Cardinality({k \in i..j : s[k] = "\n"}) >= n

\* s holds exactly one blank line somewhere: two newlines in a row.
HasBlankLine(s) == \E k \in 1..(Len(s) - 1) : s[k] = "\n" /\ s[k + 1] = "\n"

\* C24: for every input string, normalization collapses whitespace runs to
\* a single space, collapses 3 or more consecutive blank lines to exactly
\* one blank line, so that a paragraph break survives as one blank line,
\* and trims leading and trailing whitespace; normalizing twice gives the
\* same as normalizing once.
C24_Normalization ==
    Parsed =>
        /\ normalized_text = Strip(normalized_text)
        /\ \A k \in 1..(Len(normalized_text) - 1) :
               (IsSpace(normalized_text[k]) /\ IsSpace(normalized_text[k + 1])) =>
                   (normalized_text[k] = "\n" /\ normalized_text[k + 1] = "\n")
        /\ HasNewlineRun(full_text, 4) => HasBlankLine(normalized_text)
        /\ normalize_text(normalized_text) = normalized_text

\* The text parts of a DOCX in document order: the text of each non-blank
\* paragraph and the rows of each table, block after block.
RECURSIVE DocumentOrderParts(_)
DocumentOrderParts(blocks) ==
    IF blocks = <<>> THEN <<>>
    ELSE (IF blocks[1].kind = "table" THEN TableTextParts(blocks[1])
          ELSE IF Strip(blocks[1].text) # <<>> THEN <<blocks[1].text>> ELSE <<>>)
             \o DocumentOrderParts(Tail(blocks))

\* C25: parse_docx emits the text of the non-blank paragraphs and the
\* non-blank table rows in document order: the text of an earlier block
\* precedes the text of a later block, also when a table precedes a
\* paragraph.
C25_DocumentOrder ==
    (Parsed /\ parser = "parse_docx") =>
        /\ text_parts = DocumentOrderParts(p_doc)
        /\ full_text = Join(DocumentOrderParts(p_doc), <<"\n">>)

\* ------------------------------------------------------------------------
\* Properties of the retriever
\* ------------------------------------------------------------------------
Calls(name) == Len(SelectSeq(q_log, LAMBDA c : c.call = name))

\* C4: when the index search returns no results, query() returns the fixed
\* "no documents" answer with sources == [] and the original question, and
\* the chat completion is never invoked.
C4_NoResultsShortCircuit ==
    (Calls("search") = 1 /\ q_pc # "raised" /\ search_results = <<>>) =>
        /\ q_pc = "done"
        /\ q_result = [answer |-> NoDocumentsAnswer, sources |-> <<>>, question |-> question]
        /\ Calls("generate") = 0

C4_Witness ==
    /\ q_pc = "done"
    /\ Calls("search") = 1
    /\ search_results = <<>>
    /\ q_result.answer = NoDocumentsAnswer

\* C15: rank order is kept from the search to the answer: the i-th context
\* block is labelled with the filename and the chunk index of the i-th
\* result and holds its content, the i-th source is built from the i-th
\* result and carries its score, and there are as many sources as results.
C15_RankOrderPreserved ==
    LET m == Len(search_results) IN
    /\ (q_pc \in {"generate", "done", "raised"} /\ m > 0 /\ Calls("search") = 1) =>
          /\ Len(context) = m
          /\ \A i \in 1..m :
                /\ context[i].document = i
                /\ context[i].filename = search_results[i].filename
                /\ context[i].chunk_index = search_results[i].chunk_index
                /\ context[i].content = search_results[i].content
    /\ (q_pc = "done" /\ m > 0) =>
          /\ Len(q_result.sources) = m
          /\ \A i \in 1..m :
                /\ q_result.sources[i].content = search_results[i].content
                /\ q_result.sources[i].file_id = search_results[i].file_id
                /\ q_result.sources[i].filename = search_results[i].filename
                /\ q_result.sources[i].chunk_index = search_results[i].chunk_index
                /\ q_result.sources[i].score = search_results[i].score

C15_Witness ==
    /\ q_pc = "done"
    /\ Len(search_results) = 2
    /\ search_results[1].chunk_index > search_results[2].chunk_index
    /\ q_result.sources[1].chunk_index = 1
    /\ q_result.sources[2].chunk_index = 0
    /\ context[1].chunk_index = 1

CallNames == [i \in 1..Len(q_log) |-> q_log[i].call]

\* C16: query() goes through embed-query, search, build-context, generate
\* and format-sources in that order: search is called only after the query
\* embedding has returned, the chat completion is called at most once, and
\* when that call fails query() raises an answer-generation failure, makes
\* no second call and returns no answer.
C16_QueryIsLinear ==
    /\ IsPrefix(CallNames, <<"search", "generate">>)
    /\ Calls("search") >= 1 => e_pc = "returned"
    /\ Calls("generate") <= 1
    /\ Calls("generate") = 1 => (context = BuildContext(search_results) /\ search_results # <<>>)
    /\ (Calls("generate") = 1 /\ q_pc # "done") =>
          /\ q_pc = "raised"
          /\ q_error.text = "Failed to generate answer"
          /\ q_result = NoResult

C16_Witness ==
    /\ q_pc = "raised"
    /\ CallNames = <<"search", "generate">>
    /\ q_error.text = "Failed to generate answer"

\* C17: query() searches with the configured default top_k when the caller
\* gives none and with the caller's value otherwise, and the k handed to the
\* index search is always a positive integer.
C17_TopKPositive ==
    \A i \in 1..Len(q_log) :
        q_log[i].call = "search" =>
            /\ q_log[i].k = (IF top_k_arg = <<>> THEN DefaultTopK ELSE top_k_arg[1])
            /\ q_log[i].k >= 1

\* C28: for every accepted question (any string of length >= 1, also a
\* whitespace-only one) the vector passed to the index search is the
\* embedding the remote model returned for that question: a remote call was
\* made with the question, and the index is never searched with an empty
\* vector.
C28_SearchVectorIsEmbedding ==
    \A i \in 1..Len(q_log) :
        q_log[i].call = "search" =>
            /\ q_log[i].vector # EmptyVector
            /\ q_log[i].vector.of = question
            /\ valid_texts = <<question>>
            /\ \E c \in 1..Len(call_log) : call_log[c] = "ok"

\* ------------------------------------------------------------------------
\* Properties of the embedder
\* ------------------------------------------------------------------------
Failures == Len(SelectSeq(call_log, LAMBDA o : o = "fail"))
AllFailed == \A i \in 1..Len(call_log) : call_log[i] = "fail"
RECURSIVE SeqSum(_)
SeqSum(q) == IF q = <<>> THEN 0 ELSE q[1] + SeqSum(Tail(q))

\* C2: one generate_embeddings call makes at most 3 remote calls; a
\* successful call is the last one and its result is what is returned; when
\* every call fails the call raises after exactly 3 calls.
C2_AtMostThreeCalls ==
    /\ Len(call_log) <= 3
    /\ \A i \in 1..Len(call_log) : call_log[i] = "ok" =>
          /\ i = Len(call_log)
          /\ e_pc = "returned"
          /\ \E dim \in Dimensions : embeddings = ResponseEmbeddings(valid_texts, dim)
    /\ e_pc = "raised" => (Len(call_log) = 3 /\ AllFailed)
    /\ (AllFailed /\ Len(call_log) = 3) => e_pc = "raised"
    /\ (AllFailed /\ Len(call_log) < 3 /\ valid_texts # <<>>) => e_pc = "call"

C2_Witness == e_pc = "raised" /\ Len(call_log) = 3 /\ AllFailed

\* C3: after failed attempt k (from 0) the embedder waits retry_delay * 2^k
\* before attempt k+1 and does not wait after the final failed attempt; two
\* failures followed by a success return the result after a total wait of
\* retry_delay * (1 + 2), spent before generate_embeddings returns.
C3_Backoff ==
    /\ Len(sleeps) = Min2(Failures, 2)
    /\ \A k \in 0..(Len(sleeps) - 1) : sleeps[k + 1] = retry_delay * (2 ^ k)
    /\ e_pc = "raised" => SeqSum(sleeps) = retry_delay * (1 + 2)
    /\ call_log = <<"fail", "fail", "ok">> =>
          /\ e_pc = "returned"
          /\ \E dim \in Dimensions : embeddings = ResponseEmbeddings(valid_texts, dim)
          /\ SeqSum(sleeps) = retry_delay * (1 + 2)

C3_Witness ==
    /\ e_pc = "returned"
    /\ call_log = <<"fail", "fail", "ok">>
    /\ sleeps = <<1, 2>>

TypeNameContainsConnectionError(type) == type \in {"APIConnectionError", "ConnectionError"}
MessageContainsNotFound(msg) == {"not found", "Not Found", "NOT FOUND"} \cap msg # {}

\* C12: once the retries are exhausted the raised failure is classified from
\* the failure of the last attempt into exactly one class: connection when
\* the message contains 'Connection' or the type name contains
\* 'ConnectionError'; otherwise authentication when the message contains
\* '401' or 'Unauthorized'; otherwise deployment-not-found when the message
\* contains '404' or 'not found' in any case; otherwise unclassified.
C12_ClassifiedFromLastFailure ==
    e_pc = "raised" =>
        LET m == last_exception.msg
            t == last_exception.type
        IN  e_error.class =
              IF "Connection" \in m \/ TypeNameContainsConnectionError(t) THEN "connection"
              ELSE IF "401" \in m \/ "Unauthorized" \in m THEN "authentication"
              ELSE IF "404" \in m \/ MessageContainsNotFound(m) THEN "deployment_not_found"
              ELSE "unclassified"

C12_Witness ==
    /\ e_pc = "raised"
    /\ {"Connection", "401"} \subseteq last_exception.msg
    /\ e_error.class = "connection"

\* C13: every failure raised on retry exhaustion carries a remediation
\* hint, in each of the four classes.
C13_EveryFailureCarriesHint ==
    e_pc = "raised" => e_error.hint # None

\* C14: generate_embeddings removes every blank input before the remote
\* call, so no blank text is ever sent, and when no input remains it returns
\* an empty result without a remote call.
C14_BlankInputsNeverSent ==
    /\ \A i \in 1..Len(valid_texts) : ~IsBlank(valid_texts[i])
    /\ \A i \in 1..Len(embeddings) : ~IsBlank(embeddings[i].of)
    /\ (e_pc # "idle" /\ \A i \in 1..Len(texts) : IsBlank(texts[i])) =>
          /\ e_pc = "returned"
          /\ embeddings = <<>>
          /\ call_log = <<>>
    /\ call_log # <<>> => valid_texts = SelectSeq(texts, LAMBDA t : ~IsBlank(t))

C14_Witness ==
    /\ e_pc = "returned"
    /\ call_log = <<"ok">>
    /\ \E i \in 1..Len(texts) : IsBlank(texts[i])
    /\ Len(embeddings) = 1

\* ------------------------------------------------------------------------
\* Properties of the index schema
\* ------------------------------------------------------------------------
AllConstructed == \A i \in Instances : svc[i].pc \in {"ready", "failed"}

\* C8: when instances run _ensure_index concurrently while the index does
\* not exist, the index is created at most once, with the schema of
\* _create_index, and no later create call replaces or alters it; once every
\* instance is through (and no create call was lost in transit) exactly one
\* index exists.
C8_OneIndexOneSchema ==
    index_at_start = NoIndex =>
        /\ Len(index_creates) <= 1
        /\ index.exists <=> Len(index_creates) = 1
        /\ index.exists => index.schema = IndexSchema
        /\ (AllConstructed /\ ~create_faults) =>
              (index = [exists |-> TRUE, schema |-> IndexSchema] /\ Len(index_creates) = 1)

\* Two instances both found no index and both called create: one created
\* it, the other's create call was refused.
C8_Witness ==
    /\ index_at_start = NoIndex
    /\ \E i, j \in Instances :
        /\ i # j
        /\ ~svc[i].existed /\ svc[i].create_calls = 1 /\ svc[i].pc = "ready"
        /\ ~svc[j].existed /\ svc[j].create_calls = 1
        /\ svc[j].error = "ResourceExistsError"

\* C9: whenever the index already exists, _ensure_index issues no create
\* call, raises no error and leaves the schema unchanged, whether the
\* lookup returns or raises.
C9_NoOpWhenIndexExists ==
    \A i \in Instances :
        (svc[i].get_calls > 0 /\ svc[i].existed) =>
            /\ svc[i].create_calls = 0
            /\ svc[i].pc # "failed"
            /\ index.schema = index_at_start.schema \/ ~index_at_start.exists

\* C30: an instance that loses the creation race (it saw no index, and
\* another instance created the index before its own create call) still
\* completes __init__ without raising; and one _ensure_index call issues at
\* most one create call.
C30_RaceLoserCompletes ==
    \A i \in Instances :
        /\ svc[i].create_calls <= 1
        /\ (/\ index_at_start = NoIndex
            /\ ~svc[i].existed
            /\ svc[i].create_calls = 1
            /\ svc[i].error # "HttpResponseError"
            /\ index_creates # <<>>
            /\ index_creates[1] # i) => svc[i].pc = "ready"

\* ------------------------------------------------------------------------
\* Properties of the chunker
\* ------------------------------------------------------------------------
TokenMode == encoding # None
SpanStart(ch) == IF TokenMode THEN ch.start_token ELSE ch.start_char
SpanEnd(ch) == IF TokenMode THEN ch.end_token ELSE ch.end_char
\* The length N of the sequence the spans index: tokens or characters.
SpanTotal == IF TokenMode THEN Len(tokens) ELSE Len(text)
Returned == c_pc = "done" /\ ~IsBlank(text)

\* C5: in token mode with 0 <= chunk_overlap < chunk_size, chunk j (from 0)
\* has start_token = j * (chunk_size - chunk_overlap) and end_token =
\* min(start_token + chunk_size, N); only the last chunk ends at N; every
\* other chunk has chunk_size tokens and shares chunk_overlap tokens with
\* its successor; 3000 tokens with 1000/200 give the four stated windows.
C5_TokenWindows ==
    (TokenMode /\ c_pc \in {"loop", "done"} /\ Len(tokens) >= 1
        /\ chunk_overlap < chunk_size) =>
        LET N == Len(tokens)
            n == Len(chunks)
        IN /\ \A j \in 1..n :
                /\ chunks[j].start_token = (j - 1) * (chunk_size - chunk_overlap)
                /\ chunks[j].end_token = Min2(chunks[j].start_token + chunk_size, N)
                /\ chunks[j].content =
                       decode(SubSeq(tokens, chunks[j].start_token + 1, chunks[j].end_token))
                /\ j < n =>
                    /\ chunks[j].end_token < N
                    /\ chunks[j].end_token - chunks[j].start_token = chunk_size
                    /\ chunks[j].end_token - chunks[j + 1].start_token = chunk_overlap
           /\ c_pc = "done" => (n >= 1 /\ chunks[n].end_token = N)
           /\ c_pc = "loop" => (n >= 1 => chunks[n].end_token < N)
           /\ (c_pc = "done" /\ N = 3000 /\ chunk_size = 1000 /\ chunk_overlap = 200) =>
                 [j \in 1..n |-> <<chunks[j].start_token, chunks[j].end_token>>]
                     = << <<0, 1000>>, <<800, 1800>>, <<1600, 2600>>, <<2400, 3000>> >>

C5_Witness ==
    /\ TokenMode /\ c_pc = "done"
    /\ Len(tokens) = 3000 /\ chunk_size = 1000 /\ chunk_overlap = 200
    /\ Len(chunks) = 4

\* The spans of the emitted chunks cover 0..N-1: the first starts at 0, each
\* following one starts no later than the end of the one before it, and the
\* last ends at N.
SpansCover(spans, N) ==
    /\ Len(spans) >= 1
    /\ spans[1][1] = 0
    /\ \A j \in 1..(Len(spans) - 1) : spans[j + 1][1] <= spans[j][2]
    /\ spans[Len(spans)][2] = N

EmittedSpans == [j \in 1..Len(chunks) |-> <<SpanStart(chunks[j]), SpanEnd(chunks[j])>>]

\* C6 as stated: for every non-empty text, in both modes, the emitted
\* chunks' spans cover every position of the token or character sequence.
C6_AsStated == Returned => SpansCover(EmittedSpans, SpanTotal)

\* C6, amended: in token mode the emitted spans cover every position; in
\* character mode the windows the loop visits cover every position, the
\* emitted spans are exactly the windows that hold a non-whitespace
\* character, and so every non-whitespace character lies in an emitted span.
C6_SpansCover ==
    Returned =>
        IF TokenMode
        THEN SpansCover(EmittedSpans, SpanTotal)
        ELSE /\ SpansCover(windows, Len(text))
             /\ EmittedSpans =
                    SelectSeq(windows, LAMBDA w : ~IsBlank(SubSeq(text, w[1] + 1, w[2])))
             /\ \A p \in 0..(Len(text) - 1) :
                    ~IsSpace(text[p + 1]) =>
                        \E j \in 1..Len(chunks) :
                            chunks[j].start_char <= p /\ p < chunks[j].end_char

\* A character-mode run that skipped a whitespace-only window between two
\* emitted chunks.
C6_Witness ==
    /\ ~TokenMode /\ Returned
    /\ Len(chunks) >= 2
    /\ Len(windows) > Len(chunks)

\* C7: the chunks returned by chunk_text carry chunk_index 0, 1, ..., n-1 in
\* list order, for every text and every caller-supplied metadata mapping.
C7_ChunkIndexSequential ==
    c_pc = "done" => \A j \in 1..Len(chunks) : chunks[j].chunk_index = j - 1

\* C22: every chunk emitted by chunk_text, in token mode and in character
\* mode, is non-empty and not whitespace-only; so the embedder's filter
\* removes none of an upload's chunks and generate_embeddings returns as
\* many embeddings as there are chunks.
C22_NoBlankChunk ==
    /\ \A j \in 1..Len(chunks) : ~IsBlank(chunks[j].content)
    /\ (u_pc = "embed" /\ e_pc \in {"call", "returned"}) => Len(valid_texts) = Len(chunks)
    /\ (u_pc = "embed" /\ e_pc = "returned") => Len(embeddings) = Len(chunks)

\* C23: in character mode the window start strictly increases from one
\* iteration to the next, for every text and every configuration with
\* chunk_size >= 1 and chunk_overlap >= 0, chunk_overlap >= chunk_size and
\* texts without whitespace included; so the loop always terminates: every
\* iteration either returns or re-enters the loop with a larger start that
\* is still below len(text), and there are at most len(text) iterations.
C23_CharModeTerminates ==
    [][(~TokenMode /\ c_pc = "loop") =>
          /\ c_pc' \in {"loop", "done"}
          /\ Len(windows') = Len(windows) + 1
          /\ Len(windows') <= Len(text)
          /\ c_pc' = "loop" => (start_idx' > start_idx /\ start_idx' < Len(text))]_vars

\* A character-mode run with chunk_overlap >= chunk_size over a text that
\* has no whitespace, which took three windows and returned.
C23_Witness ==
    /\ ~TokenMode /\ c_pc = "done"
    /\ chunk_overlap >= chunk_size
    /\ \A p \in 1..Len(text) : ~IsSpace(text[p])
    /\ Len(windows) >= 3
    /\ \A j \in 1..(Len(windows) - 1) : windows[j + 1][1] > windows[j][1]

\* C26: token-mode chunking terminates for every text and every
\* configuration with chunk_size >= 1 and chunk_overlap >= 0, including
\* chunk_overlap >= chunk_size: every iteration either returns or re-enters
\* the loop with a window start that is larger than before, is not negative
\* and is below the number of tokens.
C26_TokenModeTerminates ==
    [][(TokenMode /\ c_pc = "loop") =>
          /\ c_pc' \in {"loop", "done"}
          /\ c_pc' = "loop" =>
                (start_idx' > start_idx /\ start_idx' >= 0 /\ start_idx' < Len(tokens))]_vars

\* C27: ChunkingService(chunk_size=s, chunk_overlap=o) uses exactly the
\* supplied values, for every supplied o >= 0 and o = 0 in particular, and
\* takes the configured default only for an argument that was omitted.
C27_SuppliedValuesUsed ==
    /\ chunk_size = IF init_args.chunk_size # <<>> THEN init_args.chunk_size[1]
                    ELSE init_args.settings.chunk_size
    /\ chunk_overlap = IF init_args.chunk_overlap # <<>> THEN init_args.chunk_overlap[1]
                       ELSE init_args.settings.chunk_overlap

====
